---- MODULE Spec2Model ----
(***************************************************************************)
(* WriteUntilYouDie: the countdown-and-decay engine of the page script.   *)
(*                                                                         *)
(* The page keeps one `state` object, a set of cached DOM `elements`, the  *)
(* browser's timer table (setTimeout / setInterval) and three localStorage *)
(* keys.  Every handler of the script is an operator from a world record   *)
(* to a world record, so that a handler which calls another one is the     *)
(* composition of the two; the actions at the end apply one whole handler  *)
(* (a DOM event or a timer callback) to the current world.                 *)
(*                                                                         *)
(* Times are Date.now() values in milliseconds.  The clock is looked at in *)
(* steps: a timer callback runs at the first step at or after its due      *)
(* time, in any order with the other callbacks and events of that step.    *)
(***************************************************************************)
EXTENDS Integers, Sequences, FiniteSets, TLC

VARIABLES
    now,          \* Date.now()
    state,        \* the script's `state` object
    elements,     \* the DOM properties the script reads and writes
    timers,       \* the browser's table of live timeouts and intervals
    localStorage, \* the draft, settings and history keys
    obs           \* observation of the run (what the properties speak about)

vars == <<now, state, elements, timers, localStorage, obs>>

\* null in a field that otherwise holds a timer id or a Date.now() value.  Ids
\* and clock values are positive, and the script only tests such a field for
\* truth or subtracts it, where null and 0 behave alike.
Null == 0

\* A value that may be missing (null, undefined, NaN, an absent storage key)
\* is None or Some(value).
None == <<>>
Some(x) == <<x>>
Get(v) == v[1]

----------------------------------------------------------------------------
(* Program constants *)

DEFAULT_TIMEOUT == 5
MAX_HISTORY == 20
COUNTDOWN_INTERVAL == 100
GRACE_DELAY == 1000
ELAPSED_INTERVAL == 1000
MIN_TIMEOUT == 1
MAX_TIMEOUT == 30
MIN_WORDS == 3
MS_PER_SECOND == 1000

----------------------------------------------------------------------------
(* Bounds of the model *)

\* The clock is looked at every ClockStep ms, MaxTicks times at most.
ClockStep == 5 * COUNTDOWN_INTERVAL
MaxTicks == 5
\* Date.now() when the page loads (any value far above MAX_TIMEOUT seconds).
PageLoadTime == 100 * MS_PER_SECOND
\* Timer ids the browser hands out; an id is free again once its timer is gone.
MaxTimers == 4
\* User actions that archive more text are held back at this history length.
MaxHistoryLen == 1
\* The user saves a draft at most MaxSaves times.
MaxSaves == 1

\* What the draft key can hold when the page loads: nothing, a draft as
\* saveDraft writes it, a draft without its wordCount, a draft without its
\* text, and a string that is not JSON.
StoredDrafts ==
    { <<>>,
      <<[text |-> <<"a", " ", "a">>, wordCount |-> 2, savedAt |-> PageLoadTime - MS_PER_SECOND]>>,
      <<[text |-> <<"a", " ", "a">>, savedAt |-> PageLoadTime - MS_PER_SECOND]>>,
      <<[wordCount |-> 2, savedAt |-> PageLoadTime - MS_PER_SECOND]>>,
      <<[garbled |-> TRUE]>> }

\* What the user can type into the text area.
InputTexts ==
    { <<"a", " ", "a">>,
      <<" ", "a", " ", "a", " ", "a">> }

\* What the user can enter into the timeout setting.
MaxEntryLen == 4
MaxLateTicks == 7
TimeoutInputs ==
    { <<"1">>, <<"3", "0", ".", "5">>,
      <<"0">>, <<"3", "1">>, <<"-", "2">>, <<"x">>, <<>> }

\* The `timeout` field of the settings blob found in localStorage at page load
\* (None: no blob stored).
StoredTimeouts == {None, Some(0), Some(-1), Some(2), Some(31)}

----------------------------------------------------------------------------
(* Pure helpers *)

Max(a, b) == IF a >= b THEN a ELSE b
Min(a, b) == IF a <= b THEN a ELSE b

\* JavaScript ToNumber on the values the script subtracts: null is 0.
ToNumber(v) == IF v = Null THEN 0 ELSE v

IsSpace(c) == c \in {" ", "\t", "\n"}

RECURSIVE TrimStart(_)
TrimStart(s) ==
    IF s # <<>> /\ IsSpace(Head(s)) THEN TrimStart(Tail(s)) ELSE s

RECURSIVE TrimEnd(_)
TrimEnd(s) ==
    IF s # <<>> /\ IsSpace(s[Len(s)]) THEN TrimEnd(SubSeq(s, 1, Len(s) - 1)) ELSE s

\* String.prototype.trim
Trim(s) == TrimEnd(TrimStart(s))

\* trimmed.split(/\s+/).length: one more than the number of whitespace runs.
RECURSIVE SplitCount(_)
SplitCount(s) ==
    IF s = <<>> THEN 1
    ELSE IF IsSpace(Head(s))
         THEN 1 + SplitCount(TrimStart(s))
         ELSE SplitCount(Tail(s))

\* countWords without the trim.
countWordsNoTrim(text) ==
    LET trimmed == text
    IN  IF trimmed = <<>> THEN 0 ELSE SplitCount(trimmed)

countWords(text) ==
    LET trimmed == Trim(text)
    IN  IF trimmed = <<>> THEN 0 ELSE SplitCount(trimmed)

Digits == {"0", "1", "2", "3", "4", "5", "6", "7", "8", "9"}

DigitValue(c) ==
    CASE c = "0" -> 0 [] c = "1" -> 1 [] c = "2" -> 2 [] c = "3" -> 3
      [] c = "4" -> 4 [] c = "5" -> 5 [] c = "6" -> 6 [] c = "7" -> 7
      [] c = "8" -> 8 [] c = "9" -> 9

\* The value of the longest prefix of digits of s, read after the digits `acc`.
RECURSIVE DigitPrefix(_, _)
DigitPrefix(s, acc) ==
    IF s # <<>> /\ Head(s) \in Digits
    THEN DigitPrefix(Tail(s), 10 * acc + DigitValue(Head(s)))
    ELSE acc

\* parseInt(value, 10): leading whitespace, an optional sign, then digits;
\* anything after the digits is ignored, no digits at all gives NaN (None).
parseInt(value) ==
    LET s == TrimStart(value)
        signed == s # <<>> /\ Head(s) \in {"-", "+"}
        body == IF signed THEN Tail(s) ELSE s
    IN  IF body = <<>> \/ Head(body) \notin Digits THEN None
        ELSE IF signed /\ Head(s) = "-" THEN Some(0 - DigitPrefix(body, 0))
        ELSE Some(DigitPrefix(body, 0))

\* value >= 1 && value <= 30 (every comparison with NaN is false)
InRange(value) ==
    value # None /\ Get(value) >= MIN_TIMEOUT /\ Get(value) <= MAX_TIMEOUT

\* A ratio num/den kept as a pair with a positive denominator.
Ratio(num, den) ==
    IF den < 0 THEN [num |-> 0 - num, den |-> 0 - den] ELSE [num |-> num, den |-> den]
RatioLeq(p, q) == p.num * q.den <= q.num * p.den
One == [num |-> 1, den |-> 1]

----------------------------------------------------------------------------
(* The world a handler runs in, and the browser's timer table *)

World ==
    [now |-> now, state |-> state, elements |-> elements, timers |-> timers,
     localStorage |-> localStorage, obs |-> obs]

FreeIds(w) == (1 .. MaxTimers) \ {t.id : t \in w.timers}

\* The id the next setTimeout / setInterval returns.
NewId(w) == CHOOSE i \in FreeIds(w) : \A j \in FreeIds(w) : i <= j

\* setTimeout(callback, delay) and setInterval(callback, delay): the new timer
\* has the id NewId(w) and is due `delay` ms from now.
setTimer(w, kind, delay) ==
    [w EXCEPT !.timers = @ \cup {[id |-> NewId(w), kind |-> kind, due |-> w.now + delay]}]

\* clearTimeout(id) and clearInterval(id)
clearTimer(w, id) == [w EXCEPT !.timers = {t \in @ : t.id # id}]

\* An interval keeps its cadence: after a run it is due at the next multiple of
\* its period, counted from when it was set, that lies in the future.
rearm(w, id, period) ==
    [w EXCEPT !.timers =
        {IF t.id = id
         THEN [t EXCEPT !.due = @ + period * (((w.now - @) \div period) + 1)]
         ELSE t : t \in @}]

TimersOf(kind) == {t \in timers : t.kind = kind}

----------------------------------------------------------------------------
(* Timer & Countdown *)

\* clearAllTimers without `state.countdownTimerId = null`.
clearAllTimersKeepingId(w) ==
    LET w1 == IF w.state.graceTimerId # Null
              THEN [clearTimer(w, w.state.graceTimerId) EXCEPT !.state.graceTimerId = Null]
              ELSE w
        w2 == IF w1.state.countdownTimerId # Null
              THEN clearTimer(w1, w1.state.countdownTimerId)
              ELSE w1
        w3 == IF w2.state.elapsedTimerId # Null
              THEN [clearTimer(w2, w2.state.elapsedTimerId)
                        EXCEPT !.state.elapsedTimerId = Null]
              ELSE w2
    IN  w3

clearAllTimers(w) ==
    LET w1 == IF w.state.graceTimerId # Null
              THEN [clearTimer(w, w.state.graceTimerId) EXCEPT !.state.graceTimerId = Null]
              ELSE w
        w2 == IF w1.state.countdownTimerId # Null
              THEN [clearTimer(w1, w1.state.countdownTimerId)
                        EXCEPT !.state.countdownTimerId = Null]
              ELSE w1
        w3 == IF w2.state.elapsedTimerId # Null
              THEN [clearTimer(w2, w2.state.elapsedTimerId)
                        EXCEPT !.state.elapsedTimerId = Null]
              ELSE w2
    IN  w3

\* The previous interval, if any, is not cleared: its id is overwritten.
startElapsedTimer(w) ==
    [setTimer(w, "elapsed", ELAPSED_INTERVAL) EXCEPT !.state.elapsedTimerId = NewId(w)]

\* Only the grace timeout is cleared here, not a running countdown interval.
\* startCountdown with half the grace delay.
startCountdownHalfGrace(w) ==
    LET w1 == IF w.state.graceTimerId # Null
              THEN [clearTimer(w, w.state.graceTimerId) EXCEPT !.state.graceTimerId = Null]
              ELSE w
    IN  [setTimer(w1, "grace", GRACE_DELAY \div 2) EXCEPT !.state.graceTimerId = NewId(w1)]

startCountdown(w) ==
    LET w1 == IF w.state.graceTimerId # Null
              THEN [clearTimer(w, w.state.graceTimerId) EXCEPT !.state.graceTimerId = Null]
              ELSE w
    IN  [setTimer(w1, "grace", GRACE_DELAY) EXCEPT !.state.graceTimerId = NewId(w1)]

triggerHeartbeat(w) ==
    [w EXCEPT !.elements.heartbeat = TRUE,
              !.obs.beats = Min(@ + 1, MAX_TIMEOUT + 2)]

\* beginActiveCountdown without the setInterval of its sampling callback.
beginActiveCountdownNoInterval(w) ==
    LET w1 == [w EXCEPT !.state.countdownActive = TRUE,
                        !.state.countdownStart = w.now,
                        !.state.heartbeatCount = 0,
                        !.elements.progressActive = TRUE,
                        !.elements.countdownClass = TRUE,
                        !.obs.decayed = TRUE,
                        !.obs.entryTimeout = w.state.timeoutSeconds,
                        !.obs.prevProgress = None,
                        !.obs.progress = None,
                        !.obs.beats = 0]
        w2 == triggerHeartbeat(w1)
    IN  w2

beginActiveCountdown(w) ==
    LET w1 == [w EXCEPT !.state.countdownActive = TRUE,
                        !.state.countdownStart = w.now,
                        !.state.heartbeatCount = 0,
                        !.elements.progressActive = TRUE,
                        !.elements.countdownClass = TRUE,
                        !.obs.decayed = TRUE,
                        !.obs.entryTimeout = w.state.timeoutSeconds,
                        !.obs.prevProgress = None,
                        !.obs.progress = None,
                        !.obs.beats = 0]
        w2 == triggerHeartbeat(w1)
    IN  [setTimer(w2, "countdown", COUNTDOWN_INTERVAL)
            EXCEPT !.state.countdownTimerId = NewId(w2)]

\* stopCountdown without `state.countdownStart = null`.
stopCountdownKeepingStart(w) ==
    LET w1 == IF w.state.graceTimerId # Null
              THEN [clearTimer(w, w.state.graceTimerId) EXCEPT !.state.graceTimerId = Null]
              ELSE w
        w2 == IF w1.state.countdownTimerId # Null
              THEN [clearTimer(w1, w1.state.countdownTimerId)
                        EXCEPT !.state.countdownTimerId = Null]
              ELSE w1
    IN  [w2 EXCEPT !.state.countdownActive = FALSE,
                   !.state.heartbeatCount = 0,
                   !.elements.filter = None,
                   !.elements.progressBar = One,
                   !.elements.progressActive = FALSE,
                   !.elements.countdownClass = FALSE,
                   !.elements.heartbeat = FALSE,
                   !.obs.entryTimeout = Null,
                   !.obs.beats = 0]

stopCountdown(w) ==
    LET w1 == IF w.state.graceTimerId # Null
              THEN [clearTimer(w, w.state.graceTimerId) EXCEPT !.state.graceTimerId = Null]
              ELSE w
        w2 == IF w1.state.countdownTimerId # Null
              THEN [clearTimer(w1, w1.state.countdownTimerId)
                        EXCEPT !.state.countdownTimerId = Null]
              ELSE w1
    IN  [w2 EXCEPT !.state.countdownActive = FALSE,
                   !.state.countdownStart = Null,
                   !.state.heartbeatCount = 0,
                   !.elements.filter = None,
                   !.elements.progressBar = One,
                   !.elements.progressActive = FALSE,
                   !.elements.countdownClass = FALSE,
                   !.elements.heartbeat = FALSE,
                   !.obs.entryTimeout = Null,
                   !.obs.beats = 0]

----------------------------------------------------------------------------
(* History *)

\* An absent key and a stored empty list both read as the empty list.
getHistory(w) == w.localStorage.history

\* saveToHistory without `history.length = MAX_HISTORY`.
saveToHistoryUnlimited(w, text, wordCount) ==
    LET entry == [id |-> w.now, text |-> text, wordCount |-> wordCount, savedAt |-> w.now]
    IN  [w EXCEPT !.localStorage.history = <<entry>> \o getHistory(w)]

\* history.unshift(entry); history.length = MAX_HISTORY when longer; setItem.
\* Date.now().toString() and toISOString() are one-to-one on the clock value.
saveToHistory(w, text, wordCount) ==
    LET entry == [id |-> w.now, text |-> text, wordCount |-> wordCount, savedAt |-> w.now]
        history == <<entry>> \o getHistory(w)
        kept == IF Len(history) > MAX_HISTORY THEN SubSeq(history, 1, MAX_HISTORY)
                ELSE history
    IN  [w EXCEPT !.localStorage.history = kept]

deleteFromHistory(w, id) ==
    [w EXCEPT !.localStorage.history = SelectSeq(getHistory(w), LAMBDA h : h.id # id)]

clearHistory(w) == [w EXCEPT !.localStorage.history = <<>>]

HistoryIds(w) == {getHistory(w)[i].id : i \in 1 .. Len(getHistory(w))}

\* history.find(h => h.id === id): the first entry with that id
findInHistory(w, id) ==
    LET history == getHistory(w)
        hits == {i \in 1 .. Len(history) : history[i].id = id}
    IN  IF hits = {} THEN None
        ELSE Some(history[CHOOSE i \in hits : \A j \in hits : i <= j])

----------------------------------------------------------------------------
(* Core logic *)

hasMeaningfulContentTwoWords(text, words) == Len(text) > 0 /\ words >= MIN_WORDS - 1

\* text.length > 0 && words >= 3
hasMeaningfulContent(text, words) == Len(text) > 0 /\ words >= MIN_WORDS

handleTextDeletion(w) ==
    LET text == Trim(w.elements.textArea)
        words == countWords(text)
        archive == hasMeaningfulContent(text, words)
        w1 == IF archive THEN saveToHistory(w, text, words) ELSE w
        w2 == clearAllTimers(w1)
    IN  [w2 EXCEPT !.state.isActive = FALSE,
                   !.state.countdownActive = FALSE,
                   !.state.startTime = Null,
                   !.elements.textArea = <<>>,
                   !.elements.filter = None,
                   !.elements.textAreaDisabled = TRUE,
                   !.elements.startButtonShown = TRUE,
                   !.elements.wordCount = 0,
                   !.elements.progressBar = One,
                   !.elements.progressActive = FALSE,
                   !.elements.countdownClass = FALSE,
                   !.elements.heartbeat = FALSE,
                   !.elements.saveDisabled = TRUE,
                   !.elements.resetDisabled = TRUE,
                   !.obs.destroyed = Min(@ + 1, 2),
                   !.obs.lastActivity = Null,
                   !.obs.shortGaps = FALSE,
                   !.obs.gapsInTime = FALSE,
                   !.obs.entryTimeout = Null,
                   !.obs.beats = 0,
                   !.obs.last =
                       [op |-> "handleTextDeletion",
                        preText |-> w.elements.textArea,
                        duringActivity |->
                            /\ w.obs.gapsInTime
                            /\ w.obs.lastActivity # Null
                            /\ w.now - w.obs.lastActivity
                                   < w.state.timeoutSeconds * MS_PER_SECOND,
                        early |->
                            /\ w.obs.entryTimeout # Null
                            /\ w.now < ToNumber(w.state.countdownStart)
                                           + w.obs.entryTimeout * MS_PER_SECOND,
                        soonAfterStart |->
                            /\ w.state.startTime # Null
                            /\ w.now - w.state.startTime
                                   < GRACE_DELAY + w.state.timeoutSeconds * MS_PER_SECOND],
                   !.obs.prevProgress = None,
                   !.obs.progress = None]

\* startSession(initialText); the start button passes no argument (None).
startSession(w, initialText) ==
    LET isString == initialText # None
        w1 == [w EXCEPT !.state.isActive = TRUE,
                        !.state.startTime = w.now,
                        !.elements.textAreaDisabled = FALSE,
                        !.elements.textArea = IF isString THEN Get(initialText) ELSE <<>>,
                        !.elements.wordCount =
                            IF isString THEN countWords(Get(initialText)) ELSE @,
                        !.elements.startButtonShown = FALSE,
                        !.elements.saveDisabled = FALSE,
                        !.elements.resetDisabled = FALSE,
                        !.obs.lastActivity = w.now,
                        !.obs.destroyed = 0,
                        !.obs.lateSample = FALSE,
                        !.obs.shortGaps = TRUE,
                        !.obs.gapsInTime = TRUE,
                        !.obs.decayed = FALSE]
    IN  startCountdown(startElapsedTimer(w1))

\* The input event: the text area already holds the edited text.
handleInput(w) ==
    LET w1 == stopCountdown(w)
        w2 == [w1 EXCEPT !.elements.wordCount = countWords(w1.elements.textArea),
                         !.obs.shortGaps =
                             @ /\ w.obs.lastActivity # Null
                               /\ w.now - w.obs.lastActivity < GRACE_DELAY,
                         !.obs.gapsInTime =
                             @ /\ w.obs.lastActivity # Null
                               /\ w.now - w.obs.lastActivity
                                      < w.state.timeoutSeconds * MS_PER_SECOND,
                         !.obs.lastActivity = w.now,
                         !.obs.prevProgress = None,
                         !.obs.progress = None]
    IN  startCountdown(w2)

\* resetSession archiving the buffer first, as handleTextDeletion does.
resetSessionArchiving(w) ==
    LET text == Trim(w.elements.textArea)
        words == countWords(text)
        w0 == IF hasMeaningfulContent(text, words) THEN saveToHistory(w, text, words) ELSE w
        w1 == stopCountdown(clearAllTimers(w0))
    IN  [w1 EXCEPT !.state.isActive = FALSE,
                   !.state.startTime = Null,
                   !.elements.textArea = <<>>,
                   !.elements.filter = None,
                   !.elements.textAreaDisabled = TRUE,
                   !.elements.startButtonShown = TRUE,
                   !.elements.wordCount = 0,
                   !.elements.progressBar = One,
                   !.elements.progressActive = FALSE,
                   !.elements.countdownClass = FALSE,
                   !.elements.heartbeat = FALSE,
                   !.elements.saveDisabled = TRUE,
                   !.elements.resetDisabled = TRUE,
                   !.obs.lastActivity = Null,
                   !.obs.shortGaps = FALSE,
                   !.obs.gapsInTime = FALSE,
                   !.obs.decayed = FALSE,
                   !.obs.prevProgress = None,
                   !.obs.progress = None]

resetSession(w) ==
    LET w1 == stopCountdown(clearAllTimers(w))
    IN  [w1 EXCEPT !.state.isActive = FALSE,
                   !.state.startTime = Null,
                   !.elements.textArea = <<>>,
                   !.elements.filter = None,
                   !.elements.textAreaDisabled = TRUE,
                   !.elements.startButtonShown = TRUE,
                   !.elements.wordCount = 0,
                   !.elements.progressBar = One,
                   !.elements.progressActive = FALSE,
                   !.elements.countdownClass = FALSE,
                   !.elements.heartbeat = FALSE,
                   !.elements.saveDisabled = TRUE,
                   !.elements.resetDisabled = TRUE,
                   !.obs.lastActivity = Null,
                   !.obs.shortGaps = FALSE,
                   !.obs.gapsInTime = FALSE,
                   !.obs.decayed = FALSE,
                   !.obs.prevProgress = None,
                   !.obs.progress = None]

\* The callback with `>=` for `>` in the heartbeat test: a beat at every sample.
countdownSampleBeatAgain(w) ==
    LET elapsedMs == w.now - ToNumber(w.state.countdownStart)
        timeoutMs == w.state.timeoutSeconds * MS_PER_SECOND
        remainingMs == Max(0, timeoutMs - elapsedMs)
        progress == Ratio(remainingMs, timeoutMs)
        baseBlur == Ratio(10 * (progress.den - progress.num), progress.den)
        w1 == [w EXCEPT !.elements.progressBar = progress,
                        !.elements.filter = Some(baseBlur),
                        !.obs.decayed = TRUE,
                        !.obs.lateSample = @ \/ w.obs.destroyed > 0,
                        !.obs.prevProgress = w.obs.progress,
                        !.obs.progress = Some(progress)]
        currentBeat == elapsedMs \div MS_PER_SECOND
        w2 == IF currentBeat >= w1.state.heartbeatCount
              THEN triggerHeartbeat([w1 EXCEPT !.state.heartbeatCount = currentBeat])
              ELSE w1
    IN  IF remainingMs <= 0 THEN handleTextDeletion(w2) ELSE w2

\* The body of the countdown interval's callback.
countdownSample(w) ==
    LET elapsedMs == w.now - ToNumber(w.state.countdownStart)
        timeoutMs == w.state.timeoutSeconds * MS_PER_SECOND
        remainingMs == Max(0, timeoutMs - elapsedMs)
        progress == Ratio(remainingMs, timeoutMs)
        baseBlur == Ratio(10 * (progress.den - progress.num), progress.den)
        w1 == [w EXCEPT !.elements.progressBar = progress,
                        !.elements.filter = Some(baseBlur),
                        !.obs.decayed = TRUE,
                        !.obs.lateSample = @ \/ w.obs.destroyed > 0,
                        !.obs.prevProgress = w.obs.progress,
                        !.obs.progress = Some(progress)]
        currentBeat == elapsedMs \div MS_PER_SECOND
        w2 == IF currentBeat > w1.state.heartbeatCount
              THEN triggerHeartbeat([w1 EXCEPT !.state.heartbeatCount = currentBeat])
              ELSE w1
    IN  IF remainingMs <= 0 THEN handleTextDeletion(w2) ELSE w2

continueFromHistory(w, id) ==
    LET entry == findInHistory(w, id)
    IN  IF entry # None
        THEN startSession(IF w.state.isActive THEN resetSession(w) ELSE w,
                          Some(Get(entry).text))
        ELSE w

----------------------------------------------------------------------------
(* Storage *)

\* saveDraft storing the trimmed text.
saveDraftTrimmed(w) ==
    LET text == Trim(w.elements.textArea)
        words == countWords(text)
        draft == [text |-> text, wordCount |-> words, savedAt |-> w.now]
        w1 == [w EXCEPT !.localStorage.draft = Some(draft)]
    IN  IF hasMeaningfulContent(Trim(text), words)
        THEN saveToHistory(w1, text, words)
        ELSE w1

\* saveDraft counting as activity: it restarts the countdown as handleInput does.
saveDraftRestartingCountdown(w) ==
    LET text == w.elements.textArea
        words == countWords(text)
        draft == [text |-> text, wordCount |-> words, savedAt |-> w.now]
        w1 == [w EXCEPT !.localStorage.draft = Some(draft)]
        w2 == IF hasMeaningfulContent(Trim(text), words)
              THEN saveToHistory(w1, text, words)
              ELSE w1
    IN  startCountdown(stopCountdown(w2))

saveDraft(w) ==
    LET text == w.elements.textArea
        words == countWords(text)
        draft == [text |-> text, wordCount |-> words, savedAt |-> w.now]
        w1 == [w EXCEPT !.localStorage.draft = Some(draft)]
    IN  IF hasMeaningfulContent(Trim(text), words)
        THEN saveToHistory(w1, text, words)
        ELSE w1

\* saveDraft when setItem throws on the draft key: the catch block logs, and
\* nothing else of the try block has run.
saveDraftWriteThrows(w) == w

\* saveDraft when setItem throws on the history key only: the draft is
\* written, saveToHistory catches the error and logs.
saveDraftHistoryWriteThrows(w) ==
    LET text == w.elements.textArea
        draft == [text |-> text, wordCount |-> countWords(text), savedAt |-> w.now]
    IN  [w EXCEPT !.localStorage.draft = Some(draft)]

\* A stored draft that is not JSON: JSON.parse throws on it.
Garbled == [garbled |-> TRUE]

\* draft.text of a stored draft; of an object without the field it is
\* undefined, which is falsy as the empty string is.
draftText(saved) ==
    IF saved # None /\ "text" \in DOMAIN Get(saved) THEN Get(saved).text ELSE <<>>

\* loadDraft with `if (draft.text)` left out: whatever parses is loaded.
loadDraftAnyText(w) ==
    LET saved == w.localStorage.draft
    IN  IF saved # None /\ Get(saved) # Garbled
        THEN startSession(w, Some(draftText(saved)))
        ELSE w

\* if (saved) { draft = JSON.parse(saved); if (draft.text) startSession(draft.text) }
\* and the catch block, which logs, when JSON.parse throws.
loadDraft(w) ==
    LET saved == w.localStorage.draft
    IN  IF saved # None /\ Get(saved) # Garbled /\ draftText(saved) # <<>>
        THEN startSession(w, Some(draftText(saved)))
        ELSE w

\* loadDraft when getItem throws: the catch block logs.
loadDraftReadThrows(w) == w

saveSettings(w) ==
    [w EXCEPT !.localStorage.settings = Some([timeout |-> w.state.timeoutSeconds])]

\* settings.timeout || DEFAULT_TIMEOUT: 0 is falsy, every other number is kept.
loadSettings(w) ==
    LET saved == w.localStorage.settings
    IN  IF saved # None
        THEN [w EXCEPT !.state.timeoutSeconds =
                 IF Get(saved).timeout = 0 THEN DEFAULT_TIMEOUT ELSE Get(saved).timeout]
        ELSE w

----------------------------------------------------------------------------
(* Event handlers *)

handleTimeoutChangeNoCheck(w, raw) ==
    LET value == parseInt(raw)
    IN  IF value # None
        THEN saveSettings([w EXCEPT !.state.timeoutSeconds = Get(value)])
        ELSE w

\* `raw` is elements.timeoutSetting.value at the change event.
handleTimeoutChange(w, raw) ==
    LET value == parseInt(raw)
    IN  IF InRange(value)
        THEN saveSettings([w EXCEPT !.state.timeoutSeconds = Get(value)])
        ELSE w

----------------------------------------------------------------------------
(* The page after init(): cacheElements, loadSettings, bindEvents *)

InitialState ==
    [isActive |-> FALSE, countdownActive |-> FALSE, startTime |-> Null,
     countdownStart |-> Null, timeoutSeconds |-> DEFAULT_TIMEOUT,
     graceTimerId |-> Null, countdownTimerId |-> Null, elapsedTimerId |-> Null,
     heartbeatCount |-> 0]

\* The idle page, as resetSession leaves it: the text area and the save and
\* reset buttons disabled, the start button shown.
InitialElements ==
    [textArea |-> <<>>, textAreaDisabled |-> TRUE, startButtonShown |-> TRUE,
     saveDisabled |-> TRUE, resetDisabled |-> TRUE, wordCount |-> 0,
     progressBar |-> One, progressActive |-> FALSE, countdownClass |-> FALSE,
     heartbeat |-> FALSE, filter |-> None]

Other == [op |-> "other"]

InitialObs ==
    [last |-> Other, lastActivity |-> Null, destroyed |-> 0,
     lateSample |-> FALSE, shortGaps |-> FALSE, gapsInTime |-> FALSE,
     decayed |-> FALSE,
     entryTimeout |-> Null, prevProgress |-> None, progress |-> None, beats |-> 0,
     saves |-> 0]

PageLoad(storedTimeout) ==
    loadSettings(
        [now |-> PageLoadTime, state |-> InitialState, elements |-> InitialElements,
         timers |-> {},
         localStorage |->
             [draft |-> None,
              settings |-> IF storedTimeout = None THEN None
                           ELSE Some([timeout |-> Get(storedTimeout)]),
              history |-> <<>>],
         obs |-> InitialObs])

\* The next state is the world w.
Becomes(w) ==
    /\ now' = w.now
    /\ state' = w.state
    /\ elements' = w.elements
    /\ timers' = w.timers
    /\ localStorage' = w.localStorage
    /\ obs' = w.obs

\* The world at the start of a handler, with the event noted.  Only the events
\* the properties below ask about are told apart.
On(event) == [World EXCEPT !.obs.last = event]

Is(w) ==
    /\ now = w.now
    /\ state = w.state
    /\ elements = w.elements
    /\ timers = w.timers
    /\ localStorage = w.localStorage
    /\ obs = w.obs

\* A first visit: nothing is stored yet.
Init == Is(PageLoad(None))

\* A later visit: the settings key holds whatever was left there.
InitStored == \E t \in StoredTimeouts : Is(PageLoad(t))

\* A later visit: the draft key holds whatever was left there.
InitStoredDraft ==
    \E d \in StoredDrafts : Is([PageLoad(None) EXCEPT !.localStorage.draft = d])

----------------------------------------------------------------------------
(* Events *)

HistoryRoom == Len(getHistory(World)) < MaxHistoryLen
Archivable(text) == countWords(text) >= MIN_WORDS

Tick ==
    /\ now + ClockStep <= PageLoadTime + MaxTicks * ClockStep
    /\ \A t \in timers : now < t.due
    /\ Becomes([On(Other) EXCEPT !.now = now + ClockStep])

\* click on the start button (only while it is displayed)
\* An input event that reaches the listener after the deletion, the text area
\* being empty and disabled by then (the end of a composition that the
\* disabling cut short, or an event another script dispatches): the listener
\* is handleInput as it is, it looks at neither state.isActive nor the text area.
LateInput == [op |-> "handleInput", late |-> TRUE]

LateTextAreaInput ==
    /\ obs.last.op = "handleTextDeletion"
    /\ Cardinality(FreeIds(World)) >= 1
    /\ Becomes(handleInput(On(LateInput)))

\* The clock moves on although a timer is due: the browser runs the timers of
\* a page late (a busy main thread, a throttled background tab), so that
\* samples of the countdown are delayed or left out.
LateTick ==
    /\ now + ClockStep <= PageLoadTime + MaxLateTicks * ClockStep
    /\ \E t \in timers : now >= t.due
    /\ Becomes([On(Other) EXCEPT !.now = now + ClockStep])

StartButtonClick ==
    /\ elements.startButtonShown
    /\ Cardinality(FreeIds(World)) >= 2
    /\ Becomes(startSession(On(Other), None))

\* input event of the text area (a disabled text area takes no input)
TextAreaInput ==
    \E text \in InputTexts :
        /\ ~elements.textAreaDisabled
        /\ Archivable(text) => HistoryRoom
        /\ Becomes(handleInput([On(Other)
                                   EXCEPT !.elements.textArea = text]))

SaveButtonClick ==
    /\ ~elements.saveDisabled
    /\ obs.saves < MaxSaves
    /\ Archivable(elements.textArea) => HistoryRoom
    /\ Becomes(saveDraft([On(Other) EXCEPT !.obs.saves = @ + 1]))

\* The load button is never disabled.
LoadButtonClick ==
    /\ Cardinality(FreeIds(World)) >= 2
    /\ Archivable(draftText(localStorage.draft)) => HistoryRoom
    /\ Becomes(loadDraft(On(Other)))

\* The load button on a visit that may find any draft stored: the draft found
\* and whether a session was running are noted.
LoadStoredDraft ==
    /\ Cardinality(FreeIds(World)) >= 2
    /\ Becomes(loadDraft(On([op |-> "loadDraft", blob |-> localStorage.draft,
                              active |-> state.isActive])))

\* The load button while the store refuses to be read.
LoadButtonClickReadThrows ==
    /\ Cardinality(FreeIds(World)) >= 2
    /\ Becomes(loadDraftReadThrows(On([op |-> "loadDraftReadThrows"])))

\* The save button while the store refuses to be written (it is full, or
\* shut), for the draft or for the history only.
SaveButtonClickWriteThrows ==
    /\ ~elements.saveDisabled
    /\ Becomes(saveDraftWriteThrows(On([op |-> "saveDraftWriteThrows"])))

SaveButtonClickHistoryWriteThrows ==
    /\ ~elements.saveDisabled
    /\ Archivable(elements.textArea)
    /\ Becomes(saveDraftHistoryWriteThrows(On([op |-> "saveDraftWriteThrows"])))

\* A call of resetSession: whether no session was active, whether the event
\* before it was a call of resetSession too, and the words of the buffer.
ResetEvent ==
    [op |-> "resetSession", idle |-> ~state.isActive,
     again |-> obs.last.op = "resetSession",
     words |-> countWords(elements.textArea)]

ResetButtonClick ==
    /\ ~elements.resetDisabled
    /\ Becomes(resetSession(On(ResetEvent)))

\* keydown of Escape: resetSession() when state.isActive
EscapeKey ==
    /\ state.isActive
    /\ Becomes(resetSession(On(ResetEvent)))

\* WriteUntilYouDie.reset(), the page's public handle on resetSession, called
\* while no session is active: the reset button and the Escape key are out
\* of use then.
ResetCall ==
    /\ ~state.isActive
    /\ Becomes(resetSession(On(ResetEvent)))

\* change event of the timeout setting, the user having entered `raw`: here an
\* entry the script accepts.
TimeoutSettingChange ==
    \E raw \in TimeoutInputs :
        /\ InRange(parseInt(raw))
        /\ Becomes(handleTimeoutChange(On(Other), raw))

\* The same event while no session is active.
IdleTimeoutSettingChange ==
    /\ ~state.isActive
    /\ TimeoutSettingChange

\* The same event with any entry of up to MaxEntryLen characters, the entry noted.
TimeoutSettingChangeAny ==
    \E raw \in TimeoutInputs :
        /\ Len(raw) <= MaxEntryLen
        /\ Becomes(handleTimeoutChange(
               On([op |-> "handleTimeoutChange", raw |-> raw]), raw))

HistoryContinueClick ==
    \E id \in HistoryIds(World) :
        /\ Cardinality(FreeIds(resetSession(World))) >= 2
        /\ Len(getHistory(World)) <= MaxHistoryLen
        /\ Becomes(continueFromHistory(On(Other), id))

HistoryDeleteClick ==
    \E id \in HistoryIds(World) :
        Becomes(deleteFromHistory(On(Other), id))

\* The clear button is displayed only while the rendered history is not empty.
ClearHistoryClick ==
    /\ getHistory(World) # <<>>
    /\ Becomes(clearHistory(On(Other)))

----------------------------------------------------------------------------
(* Timer callbacks *)

Due(t) == now >= t.due

\* The grace timeout runs once: the browser drops it, the callback forgets its id.
GraceTimerFires ==
    \E t \in TimersOf("grace") :
        /\ Due(t)
        /\ Becomes(beginActiveCountdown(
               [clearTimer(On(Other), t.id)
                    EXCEPT !.state.graceTimerId = Null]))

CountdownTimerFires ==
    \E t \in TimersOf("countdown") :
        /\ Due(t)
        /\ Becomes(countdownSample(
               rearm(On(Other),
                     t.id, COUNTDOWN_INTERVAL)))

\* The elapsed interval only rewrites the displayed time.
ElapsedTimerFires ==
    \E t \in TimersOf("elapsed") :
        /\ Due(t)
        /\ Becomes(rearm(On(Other), t.id, ELAPSED_INTERVAL))

Next ==
    \/ Tick
    \/ StartButtonClick
    \/ TextAreaInput
    \/ SaveButtonClick
    \/ LoadButtonClick
    \/ ResetButtonClick
    \/ EscapeKey
    \/ ResetCall
    \/ TimeoutSettingChange
    \/ HistoryContinueClick
    \/ HistoryDeleteClick
    \/ ClearHistoryClick
    \/ GraceTimerFires
    \/ CountdownTimerFires
    \/ ElapsedTimerFires

Spec == Init /\ [][Next]_vars

\* A later visit, where the setting may be given any entry: the session is
\* started, typed into, left to decay and reset.
NextSettings ==
    \/ Tick
    \/ StartButtonClick
    \/ TextAreaInput
    \/ ResetButtonClick
    \/ TimeoutSettingChangeAny
    \/ GraceTimerFires
    \/ CountdownTimerFires
    \/ ElapsedTimerFires

SpecSettings == InitStored /\ [][NextSettings]_vars

\* A visit where an input event may still reach the listener after the
\* deletion; the session is started, typed into, left to decay and reset.
NextLateInput ==
    \/ Tick
    \/ StartButtonClick
    \/ TextAreaInput
    \/ LateTextAreaInput
    \/ ResetButtonClick
    \/ TimeoutSettingChange
    \/ GraceTimerFires
    \/ CountdownTimerFires
    \/ ElapsedTimerFires

SpecLateInput == Init /\ [][NextLateInput]_vars

\* A visit during which the browser may run the timers late; the session is
\* started, typed into, left to decay and reset.
NextLateTimers ==
    \/ Tick
    \/ LateTick
    \/ StartButtonClick
    \/ TextAreaInput
    \/ ResetButtonClick
    \/ GraceTimerFires
    \/ CountdownTimerFires
    \/ ElapsedTimerFires

SpecLateTimers == Init /\ [][NextLateTimers]_vars

\* A later visit with any draft stored and a store that may throw; the
\* session is started, typed into, saved, loaded, left to decay and reset.
NextStore ==
    \/ Tick
    \/ StartButtonClick
    \/ TextAreaInput
    \/ SaveButtonClick
    \/ SaveButtonClickWriteThrows
    \/ SaveButtonClickHistoryWriteThrows
    \/ LoadStoredDraft
    \/ LoadButtonClickReadThrows
    \/ ResetButtonClick
    \/ GraceTimerFires
    \/ CountdownTimerFires
    \/ ElapsedTimerFires

SpecStore == InitStoredDraft /\ [][NextStore]_vars

\* A visit where the timeout is set between sessions only; the session is
\* started, typed into, left to decay and reset.
NextIdleChange ==
    \/ Tick
    \/ StartButtonClick
    \/ TextAreaInput
    \/ ResetButtonClick
    \/ IdleTimeoutSettingChange
    \/ GraceTimerFires
    \/ CountdownTimerFires
    \/ ElapsedTimerFires

SpecIdleChange == Init /\ [][NextIdleChange]_vars

\* A visit on which the user acts during the first MaxActivityTicks steps of
\* the clock and then leaves the page alone, the clock running on for
\* MaxLiveTicks steps: long enough for a session left at the default timeout
\* to go through Grace and Decaying. The browser runs every timer that is due
\* and time passes: the timer actions and the clock are weakly fair.
MaxLiveTicks == 16
MaxActivityTicks == 2

UserActs == now <= PageLoadTime + MaxActivityTicks * ClockStep

LiveTick ==
    /\ now + ClockStep <= PageLoadTime + MaxLiveTicks * ClockStep
    /\ \A t \in timers : now < t.due
    /\ Becomes([On(Other) EXCEPT !.now = now + ClockStep])

LiveStartButtonClick == UserActs /\ StartButtonClick
LiveTextAreaInput == UserActs /\ TextAreaInput
LiveSaveButtonClick == UserActs /\ SaveButtonClick
LiveLoadButtonClick == UserActs /\ LoadButtonClick
LiveResetButtonClick == UserActs /\ ResetButtonClick
LiveHistoryContinueClick == UserActs /\ HistoryContinueClick

\* The setting brought down to its minimum.
LiveTimeoutSettingChange ==
    /\ UserActs
    /\ state.timeoutSeconds # MIN_TIMEOUT
    /\ Becomes(handleTimeoutChange(On(Other), <<"1">>))

NextLive ==
    \/ LiveTick
    \/ LiveStartButtonClick
    \/ LiveTextAreaInput
    \/ LiveSaveButtonClick
    \/ LiveLoadButtonClick
    \/ LiveResetButtonClick
    \/ LiveHistoryContinueClick
    \/ LiveTimeoutSettingChange
    \/ GraceTimerFires
    \/ CountdownTimerFires
    \/ ElapsedTimerFires

\* A countdown sample is enabled exactly when a countdown interval is due, and
\* running one always moves that interval's next run: weak fairness of
\* CountdownTimerFires, written out.
CountdownDue == \E t \in TimersOf("countdown") : Due(t)
CountdownFair == []<>~CountdownDue \/ []<><<CountdownTimerFires>>_vars

SpecLive ==
    /\ Init
    /\ [][NextLive]_vars
    /\ WF_vars(LiveTick)
    /\ WF_vars(GraceTimerFires)
    /\ WF_vars(ElapsedTimerFires)
    /\ CountdownFair

\* countWords on its own: a session is running and the user leaves any text
\* of up to MaxTextLen characters, letters and whitespace, in the text area;
\* handleInput counts its words.
MaxTextLen == 5
TextChars == {"a", " ", "\n"}
Texts == UNION {[1 .. n -> TextChars] : n \in 0 .. MaxTextLen}

InitWords == Is(startSession(PageLoad(None), None))

WordsTextAreaInput ==
    \E text \in Texts :
        /\ ~elements.textAreaDisabled
        /\ Becomes(handleInput([On([op |-> "countWords", text |-> text])
                                   EXCEPT !.elements.textArea = text]))

NextWords == WordsTextAreaInput

SpecWords == InitWords /\ [][NextWords]_vars

\* The history on its own: a later visit finds up to MAX_HISTORY entries
\* stored, newest first as saveToHistory left them, and saveToHistory,
\* deleteFromHistory and clearHistory are called at most MaxHistoryCalls times
\* in any order, the clock moving on after each save, at most MaxHistoryTicks
\* times.
MaxHistoryCalls == 3
MaxHistoryTicks == 3

ArchivedText == <<"a", " ", "a", " ", "a">>

\* The n entries archived one per second up to one second before the visit.
StoredHistory(n) ==
    [k \in 1 .. n |->
        [id |-> PageLoadTime - k * MS_PER_SECOND, text |-> ArchivedText,
         wordCount |-> MIN_WORDS, savedAt |-> PageLoadTime - k * MS_PER_SECOND]]

InitHistory ==
    \E n \in 0 .. MAX_HISTORY :
        Is([PageLoad(None) EXCEPT !.localStorage.history = StoredHistory(n),
                                  !.obs = [last |-> Other, calls |-> 0]])

HistoryCall(op) ==
    [On([op |-> op, full |-> Len(getHistory(World)) = MAX_HISTORY])
        EXCEPT !.obs.calls = @ + 1]

\* The entries the user picks: the newest, the oldest and the middle one.
PickedIds ==
    LET history == getHistory(World)
    IN  {history[i].id : i \in {1, (Len(history) + 1) \div 2, Len(history)}
                                \cap (1 .. Len(history))}

HistoryTick ==
    /\ obs.last.op = "saveToHistory"
    /\ now + ClockStep <= PageLoadTime + MaxHistoryTicks * ClockStep
    /\ Becomes([On(Other) EXCEPT !.now = now + ClockStep])

SaveToHistoryCall ==
    /\ obs.calls < MaxHistoryCalls
    /\ Becomes(saveToHistory(HistoryCall("saveToHistory"), ArchivedText, MIN_WORDS))

DeleteFromHistoryCall ==
    \E id \in PickedIds :
        /\ obs.calls < MaxHistoryCalls
        /\ Becomes(deleteFromHistory(HistoryCall("deleteFromHistory"), id))

ClearHistoryCall ==
    /\ obs.calls < MaxHistoryCalls
    /\ getHistory(World) # <<>>
    /\ Becomes(clearHistory(HistoryCall("clearHistory")))

NextHistory ==
    \/ HistoryTick
    \/ SaveToHistoryCall
    \/ DeleteFromHistoryCall
    \/ ClearHistoryCall

SpecHistory == InitHistory /\ [][NextHistory]_vars

----------------------------------------------------------------------------
(* The earlier script, src/static/js/main.js: a pause timeout of timeoutSeconds,
   then a blur that grows by BLUR_INCREMENT every TICK_INTERVAL until BLUR_MAX.
   Its state object has fields of its own; the page, the timers and the store
   are the same. Its functions carry the prefix main_. *)

BLUR_INCREMENT == 1
BLUR_MAX == 20
TICK_INTERVAL == 250

\* The clock of this script's model moves MaxMainTicks times by TICK_INTERVAL,
\* and the user acts on the page at most MaxMainEvents times.
MaxMainTicks == 26
MaxMainEvents == 4

main_InitialState ==
    [isActive |-> FALSE, isPaused |-> FALSE, startTime |-> Null, pauseTime |-> Null,
     blurAmount |-> 0, timeoutSeconds |-> DEFAULT_TIMEOUT,
     pauseTimerId |-> Null, blurTimerId |-> Null, elapsedTimerId |-> Null]

main_InitialElements ==
    [textArea |-> <<>>, textAreaDisabled |-> TRUE, startButtonShown |-> TRUE,
     saveDisabled |-> TRUE, resetDisabled |-> TRUE, wordCount |-> 0,
     progressBar |-> 100, progressActive |-> FALSE, filter |-> None]

\* What the properties look at: the last event, the instant of the most
\* recent startSession, loadDraft or handleInput, and the timeout the pause
\* timeout was armed with then.
main_InitialObs ==
    [last |-> Other, lastActivity |-> Null, armedTimeout |-> Null, events |-> 0]

\* clearTimeout / clearInterval of an id the script holds: ids are not handed
\* out twice by a browser, so the id of a timeout that has run clears nothing.
main_clear(w, id, kind) ==
    [w EXCEPT !.timers = {t \in @ : ~(t.id = id /\ t.kind = kind)}]

main_clearAllTimers(w) ==
    LET w1 == IF w.state.pauseTimerId # Null
              THEN [main_clear(w, w.state.pauseTimerId, "pause")
                        EXCEPT !.state.pauseTimerId = Null]
              ELSE w
        w2 == IF w1.state.blurTimerId # Null
              THEN [main_clear(w1, w1.state.blurTimerId, "blur")
                        EXCEPT !.state.blurTimerId = Null]
              ELSE w1
        w3 == IF w2.state.elapsedTimerId # Null
              THEN [main_clear(w2, w2.state.elapsedTimerId, "elapsed")
                        EXCEPT !.state.elapsedTimerId = Null]
              ELSE w2
    IN  w3

main_startElapsedTimer(w) ==
    [setTimer(w, "elapsed", ELAPSED_INTERVAL) EXCEPT !.state.elapsedTimerId = NewId(w)]

main_startBlurEffect(w) ==
    LET w1 == [w EXCEPT !.state.isPaused = TRUE,
                        !.state.pauseTime = w.now,
                        !.elements.progressActive = TRUE]
    IN  [setTimer(w1, "blur", TICK_INTERVAL) EXCEPT !.state.blurTimerId = NewId(w1)]

main_stopBlurEffect(w) ==
    LET w1 == IF w.state.blurTimerId # Null
              THEN [main_clear(w, w.state.blurTimerId, "blur")
                        EXCEPT !.state.blurTimerId = Null]
              ELSE w
    IN  [w1 EXCEPT !.state.isPaused = FALSE,
                   !.state.blurAmount = 0,
                   !.elements.filter = None,
                   !.elements.progressBar = 100,
                   !.elements.progressActive = FALSE]

main_startPauseTimeout(w) ==
    LET w1 == IF w.state.pauseTimerId # Null
              THEN main_clear(w, w.state.pauseTimerId, "pause")
              ELSE w
    IN  [setTimer(w1, "pause", w1.state.timeoutSeconds * MS_PER_SECOND)
            EXCEPT !.state.pauseTimerId = NewId(w1),
                   !.obs.lastActivity = w.now,
                   !.obs.armedTimeout = w.state.timeoutSeconds]

main_handleTextDeletion(w) ==
    LET w1 == main_clearAllTimers(w)
    IN  [w1 EXCEPT !.state.isActive = FALSE,
                   !.state.isPaused = FALSE,
                   !.state.blurAmount = 0,
                   !.state.startTime = Null,
                   !.elements.textArea = <<>>,
                   !.elements.filter = None,
                   !.elements.textAreaDisabled = TRUE,
                   !.elements.startButtonShown = TRUE,
                   !.elements.wordCount = 0,
                   !.elements.progressBar = 100,
                   !.elements.progressActive = FALSE,
                   !.elements.saveDisabled = TRUE,
                   !.elements.resetDisabled = TRUE,
                   !.obs.last = [op |-> "handleTextDeletion",
                                 blurAmount |-> w.state.blurAmount,
                                 sinceActivity |-> w.now - ToNumber(w.obs.lastActivity)]]

\* The body of the blur interval's callback.
main_blurTick(w) ==
    LET blurAmount == w.state.blurAmount + BLUR_INCREMENT
        progress == (blurAmount * 100) \div BLUR_MAX
        w1 == [w EXCEPT !.state.blurAmount = blurAmount,
                        !.elements.filter = Some(blurAmount),
                        !.elements.progressBar = 100 - progress]
    IN  IF blurAmount >= BLUR_MAX THEN main_handleTextDeletion(w1) ELSE w1

main_startSession(w) ==
    LET w1 == [w EXCEPT !.state.isActive = TRUE,
                        !.state.startTime = w.now,
                        !.elements.textAreaDisabled = FALSE,
                        !.elements.textArea = <<>>,
                        !.elements.startButtonShown = FALSE,
                        !.elements.saveDisabled = FALSE,
                        !.elements.resetDisabled = FALSE]
    IN  main_startPauseTimeout(main_startElapsedTimer(w1))

main_handleInput(w) ==
    LET w1 == main_stopBlurEffect(w)
        w2 == [w1 EXCEPT !.elements.wordCount = countWords(w1.elements.textArea)]
    IN  main_startPauseTimeout(w2)

main_resetSession(w) ==
    LET w1 == main_clearAllTimers(w)
    IN  [w1 EXCEPT !.state.isActive = FALSE,
                   !.state.isPaused = FALSE,
                   !.state.blurAmount = 0,
                   !.state.startTime = Null,
                   !.elements.textArea = <<>>,
                   !.elements.filter = None,
                   !.elements.textAreaDisabled = TRUE,
                   !.elements.startButtonShown = TRUE,
                   !.elements.wordCount = 0,
                   !.elements.progressBar = 100,
                   !.elements.progressActive = FALSE,
                   !.elements.saveDisabled = TRUE,
                   !.elements.resetDisabled = TRUE]

main_saveDraft(w) ==
    LET draft == [text |-> w.elements.textArea,
                  wordCount |-> countWords(w.elements.textArea),
                  savedAt |-> w.now]
    IN  [w EXCEPT !.localStorage.draft = Some(draft)]

\* The session is started in place: nothing stops a blur that is running.
main_loadDraft(w) ==
    LET saved == w.localStorage.draft
    IN  IF saved # None /\ Get(saved).text # <<>>
        THEN LET w1 == [w EXCEPT !.state.isActive = TRUE,
                                 !.state.startTime = w.now,
                                 !.elements.textAreaDisabled = FALSE,
                                 !.elements.textArea = Get(saved).text,
                                 !.elements.startButtonShown = FALSE,
                                 !.elements.wordCount = Get(saved).wordCount,
                                 !.elements.saveDisabled = FALSE,
                                 !.elements.resetDisabled = FALSE]
             IN  main_startPauseTimeout(main_startElapsedTimer(w1))
        ELSE w

main_handleTimeoutChange(w, raw) ==
    LET value == parseInt(raw)
    IN  IF InRange(value)
        THEN [w EXCEPT !.state.timeoutSeconds = Get(value),
                       !.localStorage.settings = Some([timeout |-> Get(value)])]
        ELSE w

\* init on a first visit.
InitMain ==
    Is([now |-> PageLoadTime, state |-> main_InitialState,
        elements |-> main_InitialElements, timers |-> {},
        localStorage |-> [draft |-> None, settings |-> None],
        obs |-> main_InitialObs])

\* A click, a keystroke or a change of the setting.
MainUser(op) == [On([op |-> op]) EXCEPT !.obs.events = @ + 1]

MainTick ==
    /\ now + TICK_INTERVAL <= PageLoadTime + MaxMainTicks * TICK_INTERVAL
    /\ \A t \in timers : now < t.due
    /\ Becomes([On(Other) EXCEPT !.now = now + TICK_INTERVAL])

MainStartButtonClick ==
    /\ elements.startButtonShown
    /\ obs.events < MaxMainEvents
    /\ Cardinality(FreeIds(World)) >= 2
    /\ Becomes(main_startSession(MainUser("startSession")))

MainTextAreaInput ==
    /\ ~elements.textAreaDisabled
    /\ obs.events < MaxMainEvents
    /\ Cardinality(FreeIds(World)) >= 1
    /\ Becomes(main_handleInput([MainUser("handleInput") EXCEPT !.elements.textArea = <<"a", " ", "a">>]))

MainSaveButtonClick ==
    /\ ~elements.saveDisabled
    /\ obs.events < MaxMainEvents
    /\ Becomes(main_saveDraft(MainUser("saveDraft")))

\* The load button is never disabled.
MainLoadButtonClick ==
    /\ obs.events < MaxMainEvents
    /\ Cardinality(FreeIds(World)) >= 2
    /\ Becomes(main_loadDraft(MainUser("loadDraft")))

MainResetButtonClick ==
    /\ ~elements.resetDisabled
    /\ obs.events < MaxMainEvents
    /\ Becomes(main_resetSession(MainUser("resetSession")))

MainTimeoutSettingChange ==
    \E raw \in {<<"1">>, <<"3", "0", ".", "5">>} :
        /\ obs.events < MaxMainEvents
        /\ parseInt(raw) # Some(state.timeoutSeconds)
        /\ Becomes(main_handleTimeoutChange(MainUser("handleTimeoutChange"), raw))

\* The pause timeout runs once; the script keeps its id.
PauseTimerFires ==
    \E t \in TimersOf("pause") :
        /\ Due(t)
        /\ Becomes(main_startBlurEffect(clearTimer(On(Other), t.id)))

BlurTimerFires ==
    \E t \in TimersOf("blur") :
        /\ Due(t)
        /\ Becomes(main_blurTick(rearm(On(Other), t.id, TICK_INTERVAL)))

MainElapsedTimerFires ==
    \E t \in TimersOf("elapsed") :
        /\ Due(t)
        /\ Becomes(rearm(On(Other), t.id, ELAPSED_INTERVAL))

NextMain ==
    \/ MainTick
    \/ MainStartButtonClick
    \/ MainTextAreaInput
    \/ MainSaveButtonClick
    \/ MainLoadButtonClick
    \/ MainResetButtonClick
    \/ MainTimeoutSettingChange
    \/ PauseTimerFires
    \/ BlurTimerFires
    \/ MainElapsedTimerFires

SpecMain == InitMain /\ [][NextMain]_vars

----------------------------------------------------------------------------
(* Properties *)

TimerKinds == {"grace", "countdown", "elapsed"}

\* The state a deletion leaves behind (until the next event).
Deleted == obs.last.op = "handleTextDeletion"

\* The session's last activity is less than the grace delay ago.
WithinGrace == obs.lastActivity # Null /\ now - obs.lastActivity < GRACE_DELAY

\* C1: in a session the text is destroyed at most once, and after the
\* deletion no countdown sample and no deletion runs until the next session
\* starts, whatever start, input, load, continue, reset and timeout-change
\* events came before.
DestroyedAtMostOnce == obs.destroyed <= 1 /\ ~obs.lateSample

\* C2: while the activity of a session (its start, then its input events)
\* keeps every gap below timeoutSeconds, the text is not destroyed.
NoDeletionWhileActive == ~(Deleted /\ obs.last.duringActivity)

\* C3: while every gap between the activity events of a session is shorter
\* than the grace delay, the session is never Decaying: countdownActive is
\* false, no countdown has begun or sampled, and there is no blur and no
\* heartbeat.
NoDecayWithinGrace ==
    (obs.shortGaps /\ WithinGrace) =>
        /\ ~state.countdownActive
        /\ ~obs.decayed
        /\ elements.filter = None
        /\ ~elements.heartbeat

\* C4: the browser holds at most one grace timeout, at most one countdown
\* interval and at most one elapsed interval, stored in `state` or not.
AtMostOneChainPerTimer == \A kind \in TimerKinds : Cardinality(TimersOf(kind)) <= 1

\* C5: a Decaying phase is not rescaled by a timeout change: the text is not
\* destroyed before countdownStart + the timeoutSeconds in force when the
\* phase was entered.
NoDeletionBeforeEntryDeadline == ~(Deleted /\ obs.last.early)

\* C8: within one Decaying phase the progress of a countdown sample is never
\* above the progress of the sample before it.
ProgressNonIncreasing ==
    (obs.prevProgress # None /\ obs.progress # None) =>
        RatioLeq(Get(obs.progress), Get(obs.prevProgress))

\* C6: state.timeoutSeconds is an integer from 1 to 30, whatever settings the
\* page found stored when it loaded.
TimeoutInRange == state.timeoutSeconds \in MIN_TIMEOUT .. MAX_TIMEOUT

\* Whether the decimal numeral `raw` denotes a number outside [1, 30], or is
\* no numeral at all.
RECURSIVE HasNonZeroDigit(_)
HasNonZeroDigit(s) ==
    s # <<>> /\ ((Head(s) \in Digits /\ Head(s) # "0") \/ HasNonZeroDigit(Tail(s)))

RECURSIVE AfterDigits(_)
AfterDigits(s) == IF s # <<>> /\ Head(s) \in Digits THEN AfterDigits(Tail(s)) ELSE s

OutsideRange(raw) ==
    LET whole == parseInt(raw)
        signless == IF raw # <<>> /\ Head(raw) \in {"-", "+"} THEN Tail(raw) ELSE raw
        fraction == AfterDigits(signless)
    IN  \/ whole = None
        \/ Get(whole) < MIN_TIMEOUT
        \/ Get(whole) > MAX_TIMEOUT
        \/ Get(whole) = MAX_TIMEOUT /\ HasNonZeroDigit(fraction)

\* The entry the last change event of the timeout setting came with.
Entered(raw) == obs.last = [op |-> "handleTimeoutChange", raw |-> raw]

\* C7 (as stated): an entry that is no number, or a number outside 1 .. 30,
\* changes nothing: not timeoutSeconds, not the stored settings, no other state.
OutOfRangeEntryRejected ==
    [][\A raw \in TimeoutInputs :
           (Entered(raw)' /\ OutsideRange(raw))
               => UNCHANGED <<now, state, elements, timers, localStorage>>]_vars

\* C7 (amended): an entry changes nothing when parseInt(entry, 10) is NaN or
\* outside 1 .. 30.
UnparsedOrOutOfRangeEntryRejected ==
    [][\A raw \in TimeoutInputs :
           (Entered(raw)' /\ ~InRange(parseInt(raw)))
               => UNCHANGED <<now, state, elements, timers, localStorage>>]_vars

\* An entry above 30 has just been turned down in a running session whose
\* timeout differs from the default.
EntryAboveRangeRejected ==
    /\ Entered(<<"3", "1">>)
    /\ state.isActive
    /\ state.timeoutSeconds = 1
    /\ localStorage.settings = Some([timeout |-> 1])

\* What handleInput is to leave behind: no countdown interval, one grace
\* timeout due a grace delay from now, progress back at 1.0, no blur,
\* countdownActive false, the typed text kept.
AfterInput ==
    /\ TimersOf("countdown") = {}
    /\ Cardinality(TimersOf("grace")) = 1
    /\ \A t \in TimersOf("grace") : t.due = now + GRACE_DELAY /\ t.id = state.graceTimerId
    /\ state.countdownTimerId = Null
    /\ ~state.countdownActive
    /\ elements.progressBar = One
    /\ elements.filter = None
    /\ elements.textArea \in InputTexts

\* C9: every input event of an active session cancels the pending grace
\* timeout and the running countdown interval, puts progress back to 1.0 and
\* leaves exactly one fresh 1-second grace timeout, in whichever phase it comes.
InputRestartsGrace == [][TextAreaInput => AfterInput']_vars

\* The history entry saveToHistory(text, wordCount) puts first.
ArchivedEntry(text, wordCount) ==
    [id |-> now, text |-> text, wordCount |-> wordCount, savedAt |-> now]

\* A step that destroys the text archives `text` exactly when the buffer held
\* MIN_WORDS words or more, and leaves the buffer empty and the session inactive.
DeletionArchives(text) ==
    obs'.last.op = "handleTextDeletion" =>
        /\ localStorage'.history =
               IF countWords(elements.textArea) >= MIN_WORDS
               THEN <<ArchivedEntry(text, countWords(elements.textArea))>>
                        \o localStorage.history
               ELSE localStorage.history
        /\ elements'.textArea = <<>>
        /\ ~state'.isActive

\* C10 (as stated): on deletion the buffer goes to the history if and only if
\* it has 3 words or more, the entry carries the text the buffer held before
\* the deletion, and afterwards the buffer is empty and the session inactive.
DeletionArchivesBuffer == [][DeletionArchives(elements.textArea)]_vars

\* C10 (amended): as above, the entry carrying the buffer's text with leading
\* and trailing whitespace trimmed off.
DeletionArchivesTrimmedBuffer == [][DeletionArchives(Trim(elements.textArea))]_vars

\* A deletion has just archived a buffer that began with whitespace.
DeletionArchivedPaddedBuffer ==
    /\ Deleted
    /\ obs.last.preText # Trim(obs.last.preText)
    /\ localStorage.history # <<>>
    /\ localStorage.history[1].text = Trim(obs.last.preText)
    /\ localStorage.history[1].savedAt = now

\* A session that has just started and nothing else: it is active and in
\* Grace, and the browser holds its grace timeout and its elapsed interval,
\* both set now, and no other timer.
FreshSession ==
    /\ state.isActive
    /\ ~state.countdownActive
    /\ state.countdownTimerId = Null
    /\ timers = { [id |-> state.graceTimerId, kind |-> "grace", due |-> now + GRACE_DELAY],
                  [id |-> state.elapsedTimerId, kind |-> "elapsed",
                   due |-> now + ELAPSED_INTERVAL] }

\* A request to start a session: the start button, the load button, or the
\* continue button of a history entry.
StartRequest == StartButtonClick \/ LoadButtonClick \/ HistoryContinueClick

\* C11: a start request that arrives while a session is active is either
\* turned down, the session and its timers staying as they are, or preceded
\* by a full reset; it never starts a session on top of the running one.
StartWhileActiveRejectedOrReset ==
    [][(state.isActive /\ StartRequest) =>
           \/ UNCHANGED <<state, elements, timers>>
           \/ FreshSession']_vars

\* What the script and the browser hold: the state object, the page, the
\* timers and the store.
Page(w) == <<w.state, w.elements, w.timers, w.localStorage>>

ResetTwiceAsOnce ==
    Page(resetSession(resetSession(World))) = Page(resetSession(World))

\* C12 (as stated): resetSession called twice in a row leaves what it leaves
\* when called once, and called while no session is active it leaves the
\* state, the page, the timers and the store exactly as they were.
ResetIdempotentIdleUnchanged ==
    /\ ResetTwiceAsOnce
    /\ ~state.isActive => Page(resetSession(World)) = Page(World)

\* C12: resetSession called twice in a row leaves what it leaves when called
\* once; called while no session is active it leaves the session (inactive,
\* empty buffer), the controls, the timers and the store as they were, and
\* clears only what is left of a countdown: state.countdownStart and
\* state.heartbeatCount, which a deletion leaves set, and the blur, the
\* progress bar and the heartbeat mark, which a stray sample may have set.
ResetIdempotentIdleClearsCountdown ==
    /\ ResetTwiceAsOnce
    /\ ~state.isActive =>
           Page(resetSession(World))
               = Page([World EXCEPT !.state.countdownStart = Null,
                                    !.state.heartbeatCount = 0,
                                    !.elements.filter = None,
                                    !.elements.progressBar = One,
                                    !.elements.heartbeat = FALSE])

\* resetSession has been called twice in a row, the second time with no
\* session active, on a page that had destroyed a text.
ResetRepeatedAfterDeletion ==
    /\ obs.last.op = "resetSession"
    /\ obs.last.idle
    /\ obs.last.again
    /\ obs.destroyed > 0
    /\ ~state.isActive
    /\ state.countdownStart = Null

\* C13: once resetSession has returned, none of the grace timeouts, countdown
\* intervals and elapsed intervals scheduled before it is left with the
\* browser, so that none can run against a later session.
ResetLeavesNoTimer == obs.last.op = "resetSession" => timers = {}

\* C14: an input event handled at or after the deletion is discarded: it
\* schedules no grace timeout and no countdown, it leaves the session
\* inactive, and so no second deletion can follow before a new session starts.
LateInputDiscarded ==
    [][LateTextAreaInput =>
           /\ timers' = timers
           /\ ~state'.isActive
           /\ state'.graceTimerId = Null]_vars

\* The wall clock has reached the deadline of the running countdown.
DeadlineReached ==
    /\ state.countdownActive
    /\ state.countdownStart # Null
    /\ now >= state.countdownStart + state.timeoutSeconds * MS_PER_SECOND

\* C15: the deletion deadline is countdownStart + timeoutSeconds on the wall
\* clock: a sample deletes the text if and only if the clock has reached that
\* deadline, however many samples ran before it or were delayed.
DeletionAtDeadline ==
    [][CountdownTimerFires =>
           (obs'.last.op = "handleTextDeletion" <=> DeadlineReached)]_vars

\* The decay intensity that goes with a progress: (1 - progress) * 10.
BlurOf(progress) == Ratio(10 * (progress.den - progress.num), progress.den)

Ten == [num |-> 10, den |-> 1]

\* C16: within one Decaying phase the decay intensity of a countdown sample is
\* never below that of the sample before it, and it is 10 exactly when the
\* remaining time of the sample is 0.
BlurNonDecreasing ==
    obs.progress # None =>
        LET blur == BlurOf(Get(obs.progress))
        IN  /\ (RatioLeq(blur, Ten) /\ RatioLeq(Ten, blur))
                    <=> Get(obs.progress).num = 0
            /\ obs.prevProgress # None =>
                    RatioLeq(BlurOf(Get(obs.prevProgress)), blur)

\* C17 (as stated): every whole second of elapsed decay reached so far has
\* produced exactly one heartbeat, beside the one that opens the countdown.
HeartbeatPerSecond ==
    state.countdownActive => obs.beats = state.heartbeatCount + 1

\* C17: a sample of the countdown sets heartbeatCount to the whole seconds of
\* elapsed decay, never lowering it, and triggers one heartbeat if that count
\* rose and none otherwise: the whole seconds a late sample has passed over
\* share one heartbeat.
HeartbeatPerSample ==
    [][(CountdownTimerFires /\ state.countdownActive) =>
           LET k == (now - state.countdownStart) \div MS_PER_SECOND
           IN  /\ state'.heartbeatCount = k
               /\ state'.heartbeatCount >= state.heartbeatCount
               /\ obs'.last.op # "handleTextDeletion" =>
                      obs'.beats = obs.beats + (IF k > state.heartbeatCount THEN 1 ELSE 0)]_vars

\* A late sample has passed over a whole second: two whole seconds of the
\* countdown have elapsed and one heartbeat was triggered for them.
SecondWithoutHeartbeat ==
    /\ state.countdownActive
    /\ state.heartbeatCount = 2
    /\ obs.beats = 2

\* The session as the claim about store failures lists it: isActive,
\* startTime, the buffer text and the timers.
SessionKept ==
    /\ state'.isActive = state.isActive
    /\ state'.startTime = state.startTime
    /\ elements'.textArea = elements.textArea
    /\ timers' = timers
    /\ state'.graceTimerId = state.graceTimerId
    /\ state'.countdownTimerId = state.countdownTimerId
    /\ state'.elapsedTimerId = state.elapsedTimerId

StoreThrows ==
    \/ SaveButtonClickWriteThrows
    \/ SaveButtonClickHistoryWriteThrows
    \/ LoadButtonClickReadThrows

\* The stored draft is not JSON, or lacks one of its fields.
Incomplete(saved) ==
    /\ saved # None
    /\ DOMAIN Get(saved) # {"text", "wordCount", "savedAt"}

\* The stored draft is not JSON, or has no text.
Unreadable(saved) ==
    /\ saved # None
    /\ "text" \notin DOMAIN Get(saved)

AcceptedTimeout ==
    IF localStorage.settings = None THEN DEFAULT_TIMEOUT
    ELSE Get(localStorage.settings).timeout

SaveStoresBuffer ==
    SaveButtonClick =>
        /\ localStorage'.draft # None
        /\ DOMAIN Get(localStorage'.draft) = {"text", "wordCount", "savedAt"}
        /\ Get(localStorage'.draft).text = elements.textArea
        /\ Get(localStorage'.draft).wordCount = countWords(elements.textArea)
        /\ Get(localStorage'.draft).savedAt = now

\* The load button is pressed on the idle page, a draft with its three
\* fields being stored.
LoadOfSavedDraft ==
    /\ LoadStoredDraft
    /\ ~state.isActive
    /\ localStorage.draft # None
    /\ DOMAIN Get(localStorage.draft) = {"text", "wordCount", "savedAt"}

\* A session has started on the stored text, its word count displayed.
SessionOnDraft ==
    /\ state'.isActive
    /\ state'.startTime = now
    /\ ~elements'.textAreaDisabled
    /\ elements'.textArea = Get(localStorage.draft).text
    /\ elements'.wordCount = countWords(Get(localStorage.draft).text)

\* C20 (as stated): saveDraft stores exactly text, wordCount and savedAt, and
\* loadDraft on the idle page starts a session whose buffer is the stored
\* text and whose word count is countWords of it, whatever the text.
DraftRoundTrip ==
    [][/\ SaveStoresBuffer
       /\ LoadOfSavedDraft => SessionOnDraft]_vars

\* C20: saveDraft stores exactly text, wordCount and savedAt, and loadDraft
\* on the idle page starts a session whose buffer is the stored text and
\* whose word count is countWords of it, when the text is not empty; an
\* empty stored text starts no session.
NonEmptyDraftRoundTrip ==
    [][/\ SaveStoresBuffer
       /\ LoadOfSavedDraft =>
              IF Get(localStorage.draft).text # <<>>
              THEN SessionOnDraft
              ELSE UNCHANGED <<state, elements, timers>>]_vars

\* A draft saved during this visit, with a blank in front, has been loaded
\* on the idle page: the session runs on that very text, two words counted.
SavedDraftLoaded ==
    /\ obs.last.op = "loadDraft"
    /\ ~obs.last.active
    /\ obs.last.blob = localStorage.draft
    /\ localStorage.draft # None
    /\ DOMAIN Get(localStorage.draft) = {"text", "wordCount", "savedAt"}
    /\ Get(localStorage.draft).savedAt >= PageLoadTime
    /\ Get(localStorage.draft).text = <<" ", "a", " ", "a", " ", "a">>
    /\ state.isActive
    /\ elements.textArea = Get(localStorage.draft).text
    /\ elements.wordCount = 3

SessionStart ==
    \/ StartButtonClick
    \/ LoadButtonClick /\ loadDraft(World) # World
    \/ HistoryContinueClick

\* C22: every session start puts the engine in Grace: right after it no
\* countdown interval is registered, countdownActive is false and exactly one
\* grace timeout is pending; and no deletion happens sooner than the grace
\* delay plus timeoutSeconds after the start of the session it ends.
StartEntersGrace ==
    /\ [][SessionStart =>
              /\ {t \in timers' : t.kind = "countdown"} = {}
              /\ ~state'.countdownActive
              /\ Cardinality({t \in timers' : t.kind = "grace"}) = 1]_vars
    /\ [](Deleted => ~obs.last.soonAfterStart)

\* An active session that receives no further activity, reset or start.
LeftAlone == state.isActive /\ ~UserActs

Runs(s) ==
    Cardinality({i \in 1 .. Len(s) :
                    /\ ~IsSpace(s[i])
                    /\ (i = 1 \/ IsSpace(s[i - 1]))})

\* C24: countWords(text) is the number of maximal runs of non-whitespace
\* characters of text: 0 for an empty or blank text, and leading, trailing or
\* repeated whitespace does not count.
CountWordsIsRuns ==
    obs.last.op = "countWords" => elements.wordCount = Runs(obs.last.text)

\* Two words counted in a text with leading, repeated and trailing whitespace.
PaddedTextCounted ==
    /\ obs.last.op = "countWords"
    /\ obs.last.text = <<" ", "a", "\n", " ", "a">>
    /\ elements.wordCount = 2

\* C25: Grace and Decaying exclude each other: the script never holds a
\* pending grace timeout (graceTimerId) and a registered countdown interval
\* (countdownTimerId) at the same time.
GraceExcludesDecaying ==
    ~(/\ state.graceTimerId # Null
      /\ state.countdownTimerId # Null
      /\ \E g \in TimersOf("grace") : g.id = state.graceTimerId
      /\ \E c \in TimersOf("countdown") : c.id = state.countdownTimerId)

\* C26: state.countdownActive is true exactly when a countdown interval is
\* registered in state.countdownTimerId, and while no session is active both
\* are cleared, and so are the grace and elapsed timer ids.
CountdownActiveIffTimerId ==
    /\ state.countdownActive <=> state.countdownTimerId # Null
    /\ ~state.isActive =>
           /\ ~state.countdownActive
           /\ state.countdownTimerId = Null
           /\ state.graceTimerId = Null
           /\ state.elapsedTimerId = Null

\* The text has just been destroyed at the end of a countdown: the session is
\* inactive, the countdown flag and the three timer ids are cleared.
CountdownClearedAtDeletion ==
    /\ Deleted
    /\ ~state.isActive
    /\ ~state.countdownActive
    /\ state.countdownTimerId = Null
    /\ state.graceTimerId = Null
    /\ state.elapsedTimerId = Null

\* An id no history entry carries: entries are named after the instant they
\* were archived at, which is never before the page was loaded.
MissingId == PageLoadTime - 1

\* C27: continueFromHistory for an entry of the history ends with exactly one
\* running session on that entry's text, a session that was active having been
\* fully reset first: the browser holds the new session's grace timeout and
\* elapsed interval and nothing else. For an id that is not in the history it
\* changes nothing.
ContinueStartsOneSession ==
    /\ [][HistoryContinueClick =>
              /\ FreshSession'
              /\ \E id \in HistoryIds(World) :
                     elements'.textArea = Get(findInHistory(World, id)).text]_vars
    /\ [](Page(continueFromHistory(World, MissingId)) = Page(World))

\* C28: saving a draft is not activity: saveDraft leaves isActive,
\* countdownActive, countdownStart and the rest of the state object, the text
\* of the buffer and every pending timer as they were, so a countdown in
\* progress keeps its deadline.
SaveIsNotActivity ==
    [][SaveButtonClick =>
           /\ state' = state
           /\ timers' = timers
           /\ elements'.textArea = elements.textArea]_vars

\* A draft has just been saved while the countdown was in progress.
SavedDuringCountdown ==
    /\ obs.saves > 0
    /\ localStorage.draft # None
    /\ Get(localStorage.draft).savedAt = now
    /\ state.countdownActive
    /\ state.countdownStart # Null
    /\ state.countdownStart < now
    /\ TimersOf("countdown") # {}

\* A call of resetSession from the page or through the public handle.
ResetRequest == ResetButtonClick \/ EscapeKey \/ ResetCall

\* C29: resetSession never archives: it clears the buffer and leaves the
\* history as it was, whatever the buffer's word count; the history grows
\* only in a saveDraft or in the handleTextDeletion of a countdown sample, the
\* buffer being non-blank and of at least MIN_WORDS words.
ResetNeverArchives ==
    /\ [][ResetRequest =>
              /\ elements'.textArea = <<>>
              /\ localStorage'.history = localStorage.history]_vars
    /\ [][Len(localStorage'.history) > Len(localStorage.history) =>
              /\ SaveButtonClick \/ CountdownTimerFires
              /\ Trim(elements.textArea) # <<>>
              /\ countWords(elements.textArea) >= MIN_WORDS]_vars

\* A buffer of at least MIN_WORDS words has just been reset, and the history
\* is still empty.
ArchivableBufferReset ==
    /\ obs.last.op = "resetSession"
    /\ obs.last.words >= MIN_WORDS
    /\ elements.textArea = <<>>
    /\ localStorage.history = <<>>

\* C30: after any sequence of saveToHistory, deleteFromHistory and
\* clearHistory calls the stored history holds at most MAX_HISTORY entries,
\* newest first; saveToHistory puts the new entry first and keeps the entries
\* that were there in their order, and when that exceeds the limit it is the
\* oldest, the last ones, that are dropped.
HistoryBoundedNewestFirst ==
    /\ [](/\ Len(localStorage.history) <= MAX_HISTORY
          /\ \A i, j \in 1 .. Len(localStorage.history) :
                 i < j => localStorage.history[i].savedAt >= localStorage.history[j].savedAt)
    /\ [][SaveToHistoryCall =>
              /\ Len(localStorage'.history) = Min(Len(localStorage.history) + 1, MAX_HISTORY)
              /\ localStorage'.history[1].savedAt = now
              /\ \A i \in 2 .. Len(localStorage'.history) :
                     localStorage'.history[i] = localStorage.history[i - 1]]_vars

\* An entry has just been archived in a history that was full: the history is
\* full again, and the entry is its first.
ArchivedInFullHistory ==
    /\ obs.last.op = "saveToHistory"
    /\ obs.last.full
    /\ Len(localStorage.history) = MAX_HISTORY
    /\ localStorage.history[1].savedAt = now

====
